---- MODULE Spec2Model ----
(***************************************************************************)
(* A model of src/main.py: the surefire report differ.                     *)
(*                                                                         *)
(* One run of the script globs the baseline ("junit4") directory, parses   *)
(* each report into a TestSuite, does the same for the candidate           *)
(* ("junit5") directory, and then walks the baseline dictionary in         *)
(* diff_dict, accumulating pass_diff and html_content.                     *)
(*                                                                         *)
(* Python dictionaries keep insertion order, and an assignment to a key    *)
(* that is already present keeps the key's position; a dictionary is       *)
(* modelled as a sequence of [key, val] records with distinct keys.        *)
(* An XML element is modelled by what the script reads of it: a root by    *)
(* its attributes and its <testcase> children in document order, a         *)
(* testcase by its attributes and the set of its children's tags.          *)
(* The html fragments are modelled as a sequence of row records that keep  *)
(* every value the script formats into the string.                         *)
(***************************************************************************)
EXTENDS Naturals, Sequences, FiniteSets

\* ------------------------------------------------------------------ bounds
\* Most report files in one directory (program runs, SpecLoad).
MaxFiles == 2
\* Most <testcase> elements in one report of the rich load universe.
MaxElems == 2
\* Most cases in one suite map drawn for diff_dict (SpecDiff).
MaxCases == 2
\* Most differences between the two suite maps drawn for diff_dict (SpecDiff).
MaxEdits == 2

\* ------------------------------------------------------------ python values
\* dict: a sequence of [key |-> k, val |-> v], keys distinct
DictKeys(d) == {d[i].key : i \in 1..Len(d)}

\* "d.get(k, None) is not None": no value stored by the script is None
DictHas(d, k) == k \in DictKeys(d)

\* d[k], d.get(k) of a key that is present
DictGet(d, k) == (CHOOSE e \in {d[i] : i \in 1..Len(d)} : e.key = k).val

\* d[k] = v that keeps the value of a key already present (d.setdefault(k, v))
DictPutKeepsFirst(d, k, v) ==
    IF k \in DictKeys(d) THEN d ELSE Append(d, [key |-> k, val |-> v])

\* d[k] = v
DictPut(d, k, v) ==
    IF k \in DictKeys(d)
    THEN [i \in 1..Len(d) |-> IF d[i].key = k THEN [key |-> k, val |-> v] ELSE d[i]]
    ELSE Append(d, [key |-> k, val |-> v])

\* ------------------------------------------------------------------ loader
RootAttrs == {"name", "tests", "errors", "failures", "skipped"}

\* class TestSuite
TestSuite(class_name, total_num, error_num, failure_num, skipped_num, test_cases) ==
    [class_name |-> class_name, total_num |-> total_num, error_num |-> error_num,
     failure_num |-> failure_num, skipped_num |-> skipped_num,
     test_cases |-> test_cases]

\* get_test_case_status, with the first marker test taken out
StatusSkippedFirst(test_case) ==
    IF "skipped" \in test_case.children THEN "skipped"
    ELSE IF "error" \in test_case.children THEN "error"
    ELSE IF "failure" \in test_case.children THEN "failure"
    ELSE "success"

get_test_case_status(test_case) ==
    IF "error" \in test_case.children THEN "error"
    ELSE IF "skipped" \in test_case.children THEN "skipped"
    ELSE IF "failure" \in test_case.children THEN "failure"
    ELSE "success"

\* the loop of extract_test_cases over test_cases[i..]
RECURSIVE ExtractFrom(_, _, _)
ExtractFrom(test_cases, i, cases_dict) ==
    IF i > Len(test_cases) THEN cases_dict
    ELSE ExtractFrom(test_cases, i + 1,
             DictPut(cases_dict, test_cases[i].attrib["name"],
                     get_test_case_status(test_cases[i])))

extract_test_cases(test_suite) == ExtractFrom(test_suite.testcases, 1, <<>>)

\* the KeyError of attr[...] in extract_test_suite or extract_test_cases
Raises(test_suite) ==
    \/ \E a \in RootAttrs : a \notin DOMAIN test_suite.attrib
    \/ \E i \in 1..Len(test_suite.testcases) :
           "name" \notin DOMAIN test_suite.testcases[i].attrib

extract_test_suite(test_suite) ==
    TestSuite(test_suite.attrib["name"], test_suite.attrib["tests"],
              test_suite.attrib["errors"], test_suite.attrib["failures"],
              test_suite.attrib["skipped"], extract_test_cases(test_suite))

\* the for loop of get_reports_dict over xml_reports[i..]
RECURSIVE LoadFrom(_, _, _)
LoadFrom(reports, i, test_suite_dict) ==
    IF i > Len(reports) THEN test_suite_dict
    ELSE LoadFrom(reports, i + 1,
             DictPut(test_suite_dict, extract_test_suite(reports[i]).class_name,
                     extract_test_suite(reports[i])))

\* get_reports_dict of a directory whose glob yields xml_reports (none raising)
get_reports_dict(reports) == LoadFrom(reports, 1, <<>>)

\* ------------------------------------------------------------------ differ
\* one fragment of html_content
Row(kind, name, span, mark, junit4, junit5, nums4, nums5, red) ==
    [kind |-> kind, name |-> name, span |-> span, mark |-> mark,
     junit4 |-> junit4, junit5 |-> junit5,
     nums4 |-> nums4, nums5 |-> nums5, red |-> red]

\* TestSuite.get_summary
get_summary(suite) ==
    <<suite.total_num, suite.failure_num, suite.error_num, suite.skipped_num>>

\* get_num_diff_html comparing junit4_num with itself
NumDiffOfItself(junit4_num, junit5_num) ==
    IF junit4_num # junit4_num
    THEN [same |-> FALSE, red |-> TRUE, num |-> junit5_num]
    ELSE [same |-> TRUE, red |-> FALSE, num |-> junit5_num]

get_num_diff_html(junit4_num, junit5_num) ==
    IF junit4_num # junit5_num
    THEN [same |-> FALSE, red |-> TRUE, num |-> junit5_num]
    ELSE [same |-> TRUE, red |-> FALSE, num |-> junit5_num]

\* get_summary_diff_html that also compares how many cases the suites have
SummaryCountsCases(junit4_test_suite, junit5_test_suite) ==
    LET total_diff == get_num_diff_html(junit4_test_suite.total_num,
                                        junit5_test_suite.total_num)
        failure_diff == get_num_diff_html(junit4_test_suite.failure_num,
                                          junit5_test_suite.failure_num)
        error_diff == get_num_diff_html(junit4_test_suite.error_num,
                                        junit5_test_suite.error_num)
        skipped_diff == get_num_diff_html(junit4_test_suite.skipped_num,
                                          junit5_test_suite.skipped_num)
        pass == total_diff.same /\ failure_diff.same
                /\ error_diff.same /\ skipped_diff.same
                /\ Len(junit4_test_suite.test_cases) = Len(junit5_test_suite.test_cases)
    IN  [pass_diff |-> pass,
         html |-> Row("summary", "", 0, IF pass THEN "#dddddd" ELSE "#ff7575", "", "",
                      get_summary(junit4_test_suite),
                      <<total_diff.num, failure_diff.num,
                        error_diff.num, skipped_diff.num>>,
                      <<total_diff.red, failure_diff.red,
                        error_diff.red, skipped_diff.red>>)]

\* get_summary_diff_html with the baseline failure_num in the error comparison
SummaryCrossesFields(junit4_test_suite, junit5_test_suite) ==
    LET total_diff == get_num_diff_html(junit4_test_suite.total_num,
                                        junit5_test_suite.total_num)
        failure_diff == get_num_diff_html(junit4_test_suite.failure_num,
                                          junit5_test_suite.failure_num)
        error_diff == get_num_diff_html(junit4_test_suite.failure_num,
                                        junit5_test_suite.error_num)
        skipped_diff == get_num_diff_html(junit4_test_suite.skipped_num,
                                          junit5_test_suite.skipped_num)
        pass == total_diff.same /\ failure_diff.same
                /\ error_diff.same /\ skipped_diff.same
    IN  [pass_diff |-> pass,
         html |-> Row("summary", "", 0, IF pass THEN "#dddddd" ELSE "#ff7575", "", "",
                      get_summary(junit4_test_suite),
                      <<total_diff.num, failure_diff.num,
                        error_diff.num, skipped_diff.num>>,
                      <<total_diff.red, failure_diff.red,
                        error_diff.red, skipped_diff.red>>)]

get_summary_diff_html(junit4_test_suite, junit5_test_suite) ==
    LET total_diff == get_num_diff_html(junit4_test_suite.total_num,
                                        junit5_test_suite.total_num)
        failure_diff == get_num_diff_html(junit4_test_suite.failure_num,
                                          junit5_test_suite.failure_num)
        error_diff == get_num_diff_html(junit4_test_suite.error_num,
                                        junit5_test_suite.error_num)
        skipped_diff == get_num_diff_html(junit4_test_suite.skipped_num,
                                          junit5_test_suite.skipped_num)
        pass == total_diff.same /\ failure_diff.same
                /\ error_diff.same /\ skipped_diff.same
    IN  [pass_diff |-> pass,
         html |-> Row("summary", "", 0, IF pass THEN "#dddddd" ELSE "#ff7575", "", "",
                      get_summary(junit4_test_suite),
                      <<total_diff.num, failure_diff.num,
                        error_diff.num, skipped_diff.num>>,
                      <<total_diff.red, failure_diff.red,
                        error_diff.red, skipped_diff.red>>)]

get_result_html(pass) == IF pass THEN "PASS" ELSE "FAIL"

\* acc is [pass_diff, html_content], the two accumulators of diff_dict
Acc(pass, content) == [pass_diff |-> pass, html_content |-> content]

\* the else branch of the suite lookup without "pass_diff = False"
SuiteLostKeepsVerdict(test_suite_name, acc) ==
    Acc(acc.pass_diff,
        Append(acc.html_content,
               Row("suite", test_suite_name, 0, "Junit 4 Test lost.",
                   "", "", <<>>, <<>>, <<>>)))

\* the else branch of the suite lookup
SuiteLostStep(test_suite_name, acc) ==
    Acc(FALSE,
        Append(acc.html_content,
               Row("suite", test_suite_name, 0, "Junit 4 Test lost.",
                   "", "", <<>>, <<>>, <<>>)))

\* the head of the then branch: row_span and the suite cell
SuiteHeadStep(test_suite_name, junit4_test_suite, acc) ==
    Acc(acc.pass_diff,
        Append(acc.html_content,
               Row("suite", test_suite_name, Len(junit4_test_suite.test_cases) + 2,
                   "", "", "", <<>>, <<>>, <<>>)))

\* the iteration over the cases with `lost` one of two changes: the lost branch
\* without "pass_diff = False" (lost = TRUE), or the matching branch with
\* "pass_diff = True" (lost = FALSE)
CaseStepChanged(junit4_test_suite, junit5_test_suite, c, acc, lost) ==
    LET test_case_name == junit4_test_suite.test_cases[c].key
        junit4_test_case_status == junit4_test_suite.test_cases[c].val
    IN  IF DictHas(junit5_test_suite.test_cases, test_case_name)
        THEN LET junit5_test_case_status ==
                     DictGet(junit5_test_suite.test_cases, test_case_name)
             IN  IF junit5_test_case_status = junit4_test_case_status
                 THEN Acc(IF lost THEN acc.pass_diff ELSE TRUE,
                          Append(acc.html_content,
                                 Row("case", test_case_name, 0, "O",
                                     junit4_test_case_status, junit5_test_case_status,
                                     <<>>, <<>>, <<>>)))
                 ELSE Acc(FALSE,
                          Append(acc.html_content,
                                 Row("case", test_case_name, 0, "X",
                                     junit4_test_case_status, junit5_test_case_status,
                                     <<>>, <<>>, <<>>)))
        ELSE Acc(IF lost THEN acc.pass_diff ELSE FALSE,
                 Append(acc.html_content,
                        Row("case", test_case_name, 0, "Junit 4 test case lost.",
                            "", "", <<>>, <<>>, <<>>)))

CaseLostKeepsVerdict(junit4_test_suite, junit5_test_suite, c, acc) ==
    CaseStepChanged(junit4_test_suite, junit5_test_suite, c, acc, TRUE)

CaseMatchResetsVerdict(junit4_test_suite, junit5_test_suite, c, acc) ==
    CaseStepChanged(junit4_test_suite, junit5_test_suite, c, acc, FALSE)

\* one iteration of the loop over junit4_test_suite.test_cases
CaseStep(junit4_test_suite, junit5_test_suite, c, acc) ==
    LET test_case_name == junit4_test_suite.test_cases[c].key
        junit4_test_case_status == junit4_test_suite.test_cases[c].val
    IN  IF DictHas(junit5_test_suite.test_cases, test_case_name)
        THEN LET junit5_test_case_status ==
                     DictGet(junit5_test_suite.test_cases, test_case_name)
             IN  IF junit5_test_case_status = junit4_test_case_status
                 THEN Acc(acc.pass_diff,
                          Append(acc.html_content,
                                 Row("case", test_case_name, 0, "O",
                                     junit4_test_case_status, junit5_test_case_status,
                                     <<>>, <<>>, <<>>)))
                 ELSE Acc(FALSE,
                          Append(acc.html_content,
                                 Row("case", test_case_name, 0, "X",
                                     junit4_test_case_status, junit5_test_case_status,
                                     <<>>, <<>>, <<>>)))
        ELSE Acc(FALSE,
                 Append(acc.html_content,
                        Row("case", test_case_name, 0, "Junit 4 test case lost.",
                            "", "", <<>>, <<>>, <<>>)))

\* the summary comparison with "pass_diff = summary_diff[0]"
SummaryOverwritesVerdict(junit4_test_suite, junit5_test_suite, acc) ==
    LET summary_diff == get_summary_diff_html(junit4_test_suite, junit5_test_suite)
    IN  Acc(summary_diff.pass_diff, Append(acc.html_content, summary_diff.html))

\* the summary comparison after the loop over the cases
SummaryStep(junit4_test_suite, junit5_test_suite, acc) ==
    LET summary_diff == get_summary_diff_html(junit4_test_suite, junit5_test_suite)
    IN  Acc(IF ~summary_diff.pass_diff THEN FALSE ELSE acc.pass_diff,
            Append(acc.html_content, summary_diff.html))

\* the loop over junit4_test_suite.test_cases from its c-th case on
RECURSIVE DiffCases(_, _, _, _)
DiffCases(junit4_test_suite, junit5_test_suite, c, acc) ==
    IF c > Len(junit4_test_suite.test_cases) THEN acc
    ELSE DiffCases(junit4_test_suite, junit5_test_suite, c + 1,
                   CaseStep(junit4_test_suite, junit5_test_suite, c, acc))

\* the loop over junit4_dict from its s-th suite on
RECURSIVE DiffSuites(_, _, _, _)
DiffSuites(junit4_dict_, junit5_dict_, s_, acc) ==
    IF s_ > Len(junit4_dict_) THEN acc
    ELSE LET test_suite_name == junit4_dict_[s_].key
             junit4_test_suite == junit4_dict_[s_].val
         IN  IF DictHas(junit5_dict_, test_suite_name)
             THEN LET junit5_test_suite == DictGet(junit5_dict_, test_suite_name)
                  IN  DiffSuites(junit4_dict_, junit5_dict_, s_ + 1,
                          SummaryStep(junit4_test_suite, junit5_test_suite,
                              DiffCases(junit4_test_suite, junit5_test_suite, 1,
                                  SuiteHeadStep(test_suite_name, junit4_test_suite,
                                                acc))))
             ELSE DiffSuites(junit4_dict_, junit5_dict_, s_ + 1,
                             SuiteLostStep(test_suite_name, acc))

\* diff_dict as a function of the two dictionaries: [pass_diff, html_content]
diff_dict(junit4_dict_, junit5_dict_) ==
    DiffSuites(junit4_dict_, junit5_dict_, 1, Acc(TRUE, <<>>))

\* ------------------------------------------------------------------- state
VARIABLES
    dir4,            \* the *.xml files of --junit4-report-dir, as parsed roots
    dir5,            \* the *.xml files of --junit5-report-dir
    pc,              \* where the run is
    xml_reports,     \* get_reports_dict: the list the glob returned
    k,               \* get_reports_dict: reports of xml_reports parsed so far
    test_suite_dict, \* get_reports_dict: the dictionary being built
    junit4_dict,     \* __main__
    junit5_dict,     \* __main__
    pass_diff,       \* diff_dict
    html_content,    \* diff_dict
    s,               \* diff_dict: position of the loop over junit4_dict
    c,               \* diff_dict: position of the loop over the suite's cases
    html_file        \* what was written to the target path, or NoFile

vars == <<dir4, dir5, pc, xml_reports, k, test_suite_dict, junit4_dict,
          junit5_dict, pass_diff, html_content, s, c, html_file>>

NoFile == [banner |-> "", table |-> <<>>]

\* every order in which a glob may yield the files of a directory
Orders(dir) ==
    {o \in [1..Cardinality(dir) -> dir] : \A f \in dir : \E i \in DOMAIN o : o[i] = f}

\* ---------------------------------------------------------------- __main__
\* junit4_dict = get_reports_dict(args.junit4Dir): the glob
Glob4 ==
    /\ pc = "glob4"
    /\ xml_reports' \in Orders(dir4)
    /\ test_suite_dict' = <<>>
    /\ k' = 0
    /\ pc' = "load4"
    /\ UNCHANGED <<dir4, dir5, junit4_dict, junit5_dict, pass_diff,
                   html_content, s, c, html_file>>

\* one iteration of the loop over xml_reports
ParseReport ==
    /\ pc \in {"load4", "load5"}
    /\ k < Len(xml_reports)
    /\ ~Raises(xml_reports[k + 1])
    /\ LET test_suite_entity == extract_test_suite(xml_reports[k + 1])
       IN  test_suite_dict' =
               DictPut(test_suite_dict, test_suite_entity.class_name, test_suite_entity)
    /\ k' = k + 1
    /\ UNCHANGED <<dir4, dir5, pc, xml_reports, junit4_dict, junit5_dict,
                   pass_diff, html_content, s, c, html_file>>

\* the KeyError of a report caught and the report skipped
ParseErrorSkipsReport ==
    /\ pc \in {"load4", "load5"}
    /\ k < Len(xml_reports)
    /\ Raises(xml_reports[k + 1])
    /\ xml_reports' = [i \in 1..(Len(xml_reports) - 1) |->
                          IF i <= k THEN xml_reports[i] ELSE xml_reports[i + 1]]
    /\ UNCHANGED <<dir4, dir5, pc, k, test_suite_dict, junit4_dict,
                   junit5_dict, pass_diff, html_content, s, c, html_file>>

\* the KeyError of a report leaves get_reports_dict and ends the run
ParseError ==
    /\ pc \in {"load4", "load5"}
    /\ k < Len(xml_reports)
    /\ Raises(xml_reports[k + 1])
    /\ pc' = "aborted"
    /\ UNCHANGED <<dir4, dir5, xml_reports, k, test_suite_dict, junit4_dict,
                   junit5_dict, pass_diff, html_content, s, c, html_file>>

\* return test_suite_dict, into junit4_dict
Return4 ==
    /\ pc = "load4"
    /\ k = Len(xml_reports)
    /\ junit4_dict' = test_suite_dict
    /\ pc' = "glob5"
    /\ UNCHANGED <<dir4, dir5, xml_reports, k, test_suite_dict, junit5_dict,
                   pass_diff, html_content, s, c, html_file>>

\* junit5_dict = get_reports_dict(args.junit5Dir): the glob
Glob5 ==
    /\ pc = "glob5"
    /\ xml_reports' \in Orders(dir5)
    /\ test_suite_dict' = <<>>
    /\ k' = 0
    /\ pc' = "load5"
    /\ UNCHANGED <<dir4, dir5, junit4_dict, junit5_dict, pass_diff,
                   html_content, s, c, html_file>>

\* return test_suite_dict, into junit5_dict, and the entry of diff_dict
Return5 ==
    /\ pc = "load5"
    /\ k = Len(xml_reports)
    /\ junit5_dict' = test_suite_dict
    /\ pass_diff' = TRUE
    /\ html_content' = <<>>
    /\ s' = 1
    /\ pc' = "suite"
    /\ UNCHANGED <<dir4, dir5, xml_reports, k, test_suite_dict, junit4_dict,
                   c, html_file>>

\* --------------------------------------------------------------- diff_dict
\* the baseline suite has no counterpart
SuiteLost ==
    /\ pc = "suite"
    /\ s <= Len(junit4_dict)
    /\ ~DictHas(junit5_dict, junit4_dict[s].key)
    /\ LET acc == SuiteLostStep(junit4_dict[s].key, Acc(pass_diff, html_content))
       IN  /\ pass_diff' = acc.pass_diff
           /\ html_content' = acc.html_content
    /\ s' = s + 1
    /\ UNCHANGED <<dir4, dir5, pc, xml_reports, k, test_suite_dict,
                   junit4_dict, junit5_dict, c, html_file>>

\* the baseline suite has a counterpart: enter the loop over its cases
SuiteFound ==
    /\ pc = "suite"
    /\ s <= Len(junit4_dict)
    /\ DictHas(junit5_dict, junit4_dict[s].key)
    /\ LET acc == SuiteHeadStep(junit4_dict[s].key, junit4_dict[s].val,
                                Acc(pass_diff, html_content))
       IN  /\ pass_diff' = acc.pass_diff
           /\ html_content' = acc.html_content
    /\ c' = 1
    /\ pc' = "case"
    /\ UNCHANGED <<dir4, dir5, xml_reports, k, test_suite_dict,
                   junit4_dict, junit5_dict, s, html_file>>

\* one iteration of the loop over the cases of the s-th baseline suite
CaseIteration ==
    /\ pc = "case"
    /\ c <= Len(junit4_dict[s].val.test_cases)
    /\ LET acc == CaseStep(junit4_dict[s].val,
                           DictGet(junit5_dict, junit4_dict[s].key), c,
                           Acc(pass_diff, html_content))
       IN  /\ pass_diff' = acc.pass_diff
           /\ html_content' = acc.html_content
    /\ c' = c + 1
    /\ UNCHANGED <<dir4, dir5, pc, xml_reports, k, test_suite_dict,
                   junit4_dict, junit5_dict, s, html_file>>

\* after the cases: compare the summary, go to the next suite
Summary ==
    /\ pc = "case"
    /\ c > Len(junit4_dict[s].val.test_cases)
    /\ LET acc == SummaryStep(junit4_dict[s].val,
                              DictGet(junit5_dict, junit4_dict[s].key),
                              Acc(pass_diff, html_content))
       IN  /\ pass_diff' = acc.pass_diff
           /\ html_content' = acc.html_content
    /\ s' = s + 1
    /\ pc' = "suite"
    /\ UNCHANGED <<dir4, dir5, xml_reports, k, test_suite_dict,
                   junit4_dict, junit5_dict, c, html_file>>

\* after the suites, with --html-file (generate_html, which nothing reads
\* before this point): write the report
WriteHtml ==
    /\ pc = "suite"
    /\ s > Len(junit4_dict)
    /\ html_file' = [banner |-> get_result_html(pass_diff), table |-> html_content]
    /\ pc' = "done"
    /\ UNCHANGED <<dir4, dir5, xml_reports, k, test_suite_dict, junit4_dict,
                   junit5_dict, pass_diff, html_content, s, c>>

\* after the suites, without --html-file: nothing is written
NoHtml ==
    /\ pc = "suite"
    /\ s > Len(junit4_dict)
    /\ pc' = "done"
    /\ UNCHANGED <<dir4, dir5, xml_reports, k, test_suite_dict, junit4_dict,
                   junit5_dict, pass_diff, html_content, s, c, html_file>>

NextDiff ==
    \/ SuiteLost
    \/ SuiteFound
    \/ CaseIteration
    \/ Summary
    \/ WriteHtml
    \/ NoHtml

Next ==
    \/ Glob4
    \/ ParseReport
    \/ ParseError
    \/ Return4
    \/ Glob5
    \/ Return5
    \/ NextDiff

\* ----------------------------------------------------------- report files
Root(attrib, testcases) == [attrib |-> attrib, testcases |-> testcases]

TestCase(name, children) == [attrib |-> [name |-> name], children |-> children]

\* a testsuite root with all five attributes
Report(name, tests, errors, failures, skipped, testcases) ==
    Root([name |-> name, tests |-> tests, errors |-> errors,
          failures |-> failures, skipped |-> skipped], testcases)

\* the root without its attribute a
Without(root, a) ==
    Root([x \in (DOMAIN root.attrib) \ {a} |-> root.attrib[x]], root.testcases)

ReportA == Report("A", "1", "0", "0", "0", <<TestCase("a", {})>>)

\* the reports of the program runs: two reports of suite A that differ, one of
\* suite B, and ReportA with each required attribute missing in turn
Reports ==
    {ReportA,
     Report("A", "1", "0", "1", "0", <<TestCase("a", {"failure"})>>),
     Report("B", "0", "0", "0", "0", <<>>)}
    \cup {Without(ReportA, a) : a \in RootAttrs}

Dirs(universe) == {d \in SUBSET universe : Cardinality(d) <= MaxFiles}

InitRun ==
    /\ pc = "glob4"
    /\ xml_reports = <<>>
    /\ k = 0
    /\ test_suite_dict = <<>>
    /\ junit4_dict = <<>>
    /\ junit5_dict = <<>>
    /\ pass_diff = TRUE
    /\ html_content = <<>>
    /\ s = 1
    /\ c = 1
    /\ html_file = NoFile

Init ==
    /\ dir4 \in Dirs(Reports)
    /\ dir5 \in Dirs(Reports)
    /\ InitRun

Spec == Init /\ [][Next]_vars

\* ------------------------------------------------- suite maps for diff_dict
SuiteNames == {"A", "B"}
CaseNames == {"a", "b"}
Outcomes == {"success", "failure"}

Distinct(d) == \A i, j \in 1..Len(d) : d[i].key = d[j].key => i = j

\* the test_cases dictionaries over CaseNames
CaseDicts ==
    {d \in UNION {[1..n -> [key : CaseNames, val : Outcomes]] :
                      n \in 0..Cardinality(CaseNames)} : Distinct(d)}

\* the baseline counters: four different strings
BaseSuite(name, test_cases) == TestSuite(name, "3", "1", "2", "0", test_cases)

RECURSIVE TotalCases(_, _)
TotalCases(d, i) ==
    IF i > Len(d) THEN 0 ELSE Len(d[i].val.test_cases) + TotalCases(d, i + 1)

\* the baseline maps: suites of SuiteNames with MaxCases cases in all. The
\* script only tests suite names for equality, so a map that lists suite B
\* before suite A is the renaming of one that lists A before B: the maps of
\* two suites are drawn with A first.
BaselineMaps ==
    {d \in UNION {[1..n -> {[key |-> name, val |-> BaseSuite(name, cd)] :
                               name \in SuiteNames, cd \in CaseDicts}] :
                      n \in 0..Cardinality(SuiteNames)} :
        /\ Distinct(d)
        /\ TotalCases(d, 1) <= MaxCases
        /\ Len(d) > 1 => d[1].key = "A"}

\* d without its i-th entry
Remove(d, i) == [j \in 1..(Len(d) - 1) |-> IF j < i THEN d[j] ELSE d[j + 1]]

\* the suite map d with the i-th suite replaced
WithSuite(d, i, suite) == [d EXCEPT ![i] = [key |-> d[i].key, val |-> suite]]

\* the maps one difference away from d: a suite lost or added, a case lost,
\* added or of another outcome, a counter of another value
OneEdit(d) ==
    {Remove(d, i) : i \in 1..Len(d)}
    \cup {Append(d, [key |-> name, val |-> BaseSuite(name, cd)]) :
              name \in SuiteNames \ DictKeys(d),
              cd \in {x \in CaseDicts : Len(x) = 0}}
    \cup UNION {
           {WithSuite(d, i, [d[i].val EXCEPT !.test_cases = Remove(@, j)]) :
                j \in 1..Len(d[i].val.test_cases)}
           \cup {WithSuite(d, i, [d[i].val EXCEPT
                                     !.test_cases = Append(@, [key |-> n, val |-> o])]) :
                     n \in CaseNames \ DictKeys(d[i].val.test_cases), o \in Outcomes}
           \cup {WithSuite(d, i, [d[i].val EXCEPT !.test_cases[j].val = o]) :
                     j \in 1..Len(d[i].val.test_cases), o \in Outcomes}
           \cup {WithSuite(d, i, [d[i].val EXCEPT !.total_num = "9"]),
                 WithSuite(d, i, [d[i].val EXCEPT !.failure_num = "9"]),
                 WithSuite(d, i, [d[i].val EXCEPT !.error_num = "9"]),
                 WithSuite(d, i, [d[i].val EXCEPT !.skipped_num = "9"])} :
           i \in 1..Len(d)}

\* the maps at most n differences away from the maps of D
RECURSIVE Edited(_, _)
Edited(D, n) ==
    IF n = 0 THEN D ELSE Edited(D \cup UNION {OneEdit(d) : d \in D}, n - 1)

\* a report that parses to the suite, and a directory that loads to the map
MarkerOf(outcome) == IF outcome = "success" THEN {} ELSE {outcome}

ReportOf(suite) ==
    Report(suite.class_name, suite.total_num, suite.error_num, suite.failure_num,
           suite.skipped_num,
           [i \in 1..Len(suite.test_cases) |->
               TestCase(suite.test_cases[i].key, MarkerOf(suite.test_cases[i].val))])

ListOf(d) == [i \in 1..Len(d) |-> ReportOf(d[i].val)]

DirOf(d) == {ReportOf(d[i].val) : i \in 1..Len(d)}

\* diff_dict entered with two suite maps, as __main__ enters it after loading
\* the directories DirOf(junit4_dict) and DirOf(junit5_dict)
InitDiff ==
    /\ junit4_dict \in BaselineMaps
    /\ junit5_dict \in {d \in Edited({junit4_dict}, MaxEdits) :
                            TotalCases(d, 1) <= MaxCases}
    /\ dir4 = DirOf(junit4_dict)
    /\ dir5 = DirOf(junit5_dict)
    /\ xml_reports = ListOf(junit5_dict)
    /\ k = Len(junit5_dict)
    /\ test_suite_dict = junit5_dict
    /\ pc = "suite"
    /\ pass_diff = TRUE
    /\ html_content = <<>>
    /\ s = 1
    /\ c = 1
    /\ html_file = NoFile

SpecDiff == InitDiff /\ [][NextDiff]_vars

\* ------------------------------------------------ reports for the loader
Markers == {"error", "skipped", "failure"}

\* the testcase elements: a name and any set of markers, or no name attribute
Elements ==
    {TestCase(n, ch) : n \in CaseNames, ch \in SUBSET Markers}
    \cup {[attrib |-> [classname |-> "K"], children |-> {}]}

\* the reports of suite A with at most MaxElems testcase elements
RichReports ==
    {Report("A", "1", "0", "0", "0", tcs) :
        tcs \in UNION {[1..n -> Elements] : n \in 0..MaxElems}}

\* a run over one rich baseline report and a small candidate directory
InitLoad ==
    /\ dir4 \in {{f} : f \in RichReports}
    /\ dir5 \in Dirs({ReportA, Without(ReportA, "name")})
    /\ InitRun

SpecLoad == InitLoad /\ [][Next]_vars

\* ================================================================== claims
LostSuiteMark == "Junit 4 Test lost."
LostCaseMark == "Junit 4 test case lost."

\* the baseline suites with a counterpart in the candidate map
Matched == {i \in 1..Len(junit4_dict) : junit4_dict[i].key \in DictKeys(junit5_dict)}

Counterpart(i) == DictGet(junit5_dict, junit4_dict[i].key)

\* where the row of the i-th baseline suite is in html_content
SuiteRowOf(i) ==
    CHOOSE p \in 1..Len(html_content) :
        html_content[p].kind = "suite" /\ html_content[p].name = junit4_dict[i].key

SuiteRows == SelectSeq(html_content, LAMBDA r : r.kind = "suite")

\* a row that reports a discrepancy
Discrepancy(r) ==
    \/ r.kind = "suite" /\ r.mark = LostSuiteMark
    \/ r.kind = "case" /\ r.mark \in {"X", LostCaseMark}
    \/ r.kind = "summary" /\ r.mark = "#ff7575"

\* ---- C1
SuitesPresent ==
    \A i \in 1..Len(junit4_dict) : junit4_dict[i].key \in DictKeys(junit5_dict)

CasesPresent ==
    \A i \in Matched : \A j \in 1..Len(junit4_dict[i].val.test_cases) :
        junit4_dict[i].val.test_cases[j].key \in DictKeys(Counterpart(i).test_cases)

OutcomesEqual ==
    \A i \in Matched : \A j \in 1..Len(junit4_dict[i].val.test_cases) :
        LET case == junit4_dict[i].val.test_cases[j]
        IN  case.key \in DictKeys(Counterpart(i).test_cases)
                => DictGet(Counterpart(i).test_cases, case.key) = case.val

CountersEqual ==
    \A i \in Matched :
        /\ junit4_dict[i].val.total_num = Counterpart(i).total_num
        /\ junit4_dict[i].val.failure_num = Counterpart(i).failure_num
        /\ junit4_dict[i].val.error_num = Counterpart(i).error_num
        /\ junit4_dict[i].val.skipped_num = Counterpart(i).skipped_num

\* C1: when diff_dict has walked the baseline map, its verdict is pass if and
\* only if every baseline suite is in the candidate map, every baseline case is
\* in the matching candidate suite, every such case has the same outcome on
\* both sides, and the four counters of every matched suite are equal.
C1_VerdictIffNoDiscrepancy ==
    pc = "done" =>
        (pass_diff <=> (SuitesPresent /\ CasesPresent /\ OutcomesEqual /\ CountersEqual))

\* a passing verdict over two suites with cases
C1_Witness ==
    /\ pc = "done"
    /\ pass_diff
    /\ Len(junit4_dict) = 2
    /\ TotalCases(junit4_dict, 1) = 2

\* ---- C3
\* the candidate maps with one more suite that no baseline suite names
ExtraSuite ==
    UNION {
      {DictPut(junit5_dict, name, BaseSuite(name, <<>>)),
       DictPut(junit5_dict, name,
               TestSuite(name, "9", "9", "9", "9",
                         <<[key |-> "a", val |-> "failure"]>>))} :
      name \in (SuiteNames \cup {"Z"}) \ DictKeys(junit4_dict)}

\* the candidate maps with one more case, in a suite of the candidate, that
\* the baseline suite of that name (if there is one) does not have
ExtraCase ==
    UNION {
      {[junit5_dict EXCEPT ![i].val.test_cases = DictPut(@, n, o)] :
          n \in (CaseNames \cup {"z"}) \
                (IF DictHas(junit4_dict, junit5_dict[i].key)
                 THEN DictKeys(DictGet(junit4_dict, junit5_dict[i].key).test_cases)
                 ELSE {}),
          o \in Outcomes} :
      i \in 1..Len(junit5_dict)}

\* C3: what diff_dict computed from the baseline and the candidate map, verdict
\* and every row of the report, is what it computes when the candidate map has
\* one more suite that the baseline does not name, or one of its suites has one
\* more case that the baseline suite does not have.
C3_CandidateOnlyIgnored ==
    pc = "done" =>
        \A extended \in ExtraSuite \cup ExtraCase :
            diff_dict(junit4_dict, extended) = Acc(pass_diff, html_content)

\* a passing verdict although the candidate has a suite and a case of its own
C3_Witness ==
    /\ pc = "done"
    /\ pass_diff
    /\ DictKeys(junit5_dict) \ DictKeys(junit4_dict) # {}
    /\ \E i \in Matched :
           DictKeys(Counterpart(i).test_cases)
               \ DictKeys(junit4_dict[i].val.test_cases) # {}

\* ---- C4
\* C4: when diff_dict has walked the baseline map, every baseline suite has its
\* suite row, in the order of the baseline map; a baseline suite that is not in
\* the candidate map has the lost mark, is followed by no case row and no
\* summary row, and the verdict is fail.
C4_LostSuite ==
    pc = "done" =>
        /\ Len(SuiteRows) = Len(junit4_dict)
        /\ \A i \in 1..Len(junit4_dict) : SuiteRows[i].name = junit4_dict[i].key
        /\ \A i \in (1..Len(junit4_dict)) \ Matched :
               /\ ~pass_diff
               /\ html_content[SuiteRowOf(i)].mark = LostSuiteMark
               /\ \/ SuiteRowOf(i) = Len(html_content)
                  \/ html_content[SuiteRowOf(i) + 1].kind = "suite"

\* a lost suite, and after it a suite that was compared
C4_Witness ==
    /\ pc = "done"
    /\ Len(junit4_dict) = 2
    /\ 1 \notin Matched
    /\ 2 \in Matched
    /\ Len(junit4_dict[2].val.test_cases) > 0

\* ---- C5
\* the rows of a matched suite: one per baseline case, in order, then the summary
RowsOfSuite(i) ==
    LET p == SuiteRowOf(i)
        n == Len(junit4_dict[i].val.test_cases)
    IN  /\ Len(html_content) >= p + n + 1
        /\ \A j \in 1..n :
               /\ html_content[p + j].kind = "case"
               /\ html_content[p + j].name = junit4_dict[i].val.test_cases[j].key
        /\ html_content[p + n + 1].kind = "summary"

\* C5: when diff_dict has walked the baseline map, every matched suite has one
\* case row per baseline case and then its summary row; a baseline case that
\* the candidate suite does not have carries the lost mark and the verdict is
\* fail, whatever the other cases are.
C5_LostCase ==
    pc = "done" =>
        \A i \in Matched :
            /\ RowsOfSuite(i)
            /\ \A j \in 1..Len(junit4_dict[i].val.test_cases) :
                   junit4_dict[i].val.test_cases[j].key
                           \notin DictKeys(Counterpart(i).test_cases)
                       => /\ ~pass_diff
                          /\ html_content[SuiteRowOf(i) + j].mark = LostCaseMark

\* a lost case, then a case of the same suite that matches, counters equal
C5_Witness ==
    /\ pc = "done"
    /\ \E i \in Matched :
           /\ Len(junit4_dict[i].val.test_cases) = 2
           /\ html_content[SuiteRowOf(i) + 1].mark = LostCaseMark
           /\ html_content[SuiteRowOf(i) + 2].mark = "O"
           /\ html_content[SuiteRowOf(i) + 3].mark = "#dddddd"

\* ---- C8
SummaryRowOf(i) ==
    html_content[SuiteRowOf(i) + Len(junit4_dict[i].val.test_cases) + 1]

\* C8: when diff_dict has walked the baseline map, the summary row of every
\* matched suite flags the total, failure, error and skipped counter each
\* exactly when its two values differ, and a flagged counter makes the verdict
\* fail.
C8_CounterFlags ==
    pc = "done" =>
        \A i \in Matched :
            /\ SummaryRowOf(i).kind = "summary"
            /\ SummaryRowOf(i).red =
                   <<junit4_dict[i].val.total_num # Counterpart(i).total_num,
                     junit4_dict[i].val.failure_num # Counterpart(i).failure_num,
                     junit4_dict[i].val.error_num # Counterpart(i).error_num,
                     junit4_dict[i].val.skipped_num # Counterpart(i).skipped_num>>
            /\ (\E f \in 1..4 : SummaryRowOf(i).red[f]) => ~pass_diff

\* one suite whose cases all match and whose skipped counter alone is flagged,
\* and one suite with a case of another outcome and no counter flagged
C8_Witness ==
    /\ pc = "done"
    /\ \E i \in Matched :
           /\ Len(junit4_dict[i].val.test_cases) > 0
           /\ \A j \in 1..Len(junit4_dict[i].val.test_cases) :
                  html_content[SuiteRowOf(i) + j].mark = "O"
           /\ SummaryRowOf(i).red = <<FALSE, FALSE, FALSE, TRUE>>
    /\ \E i \in Matched :
           /\ \E j \in 1..Len(junit4_dict[i].val.test_cases) :
                  html_content[SuiteRowOf(i) + j].mark = "X"
           /\ SummaryRowOf(i).red = <<FALSE, FALSE, FALSE, FALSE>>

\* ---- C10
\* C10: the verdict is pass when diff_dict starts; no step of diff_dict takes it
\* from fail back to pass; and whenever the walk is between two steps the
\* verdict is fail exactly when a row written so far reports a discrepancy.
C10_VerdictMonotone ==
    /\ [](pc \in {"suite", "case", "done"} /\ html_content = <<>> => pass_diff)
    /\ [][(pc \in {"suite", "case"} /\ ~pass_diff) => (pass_diff' = FALSE)]_vars
    /\ [](pc \in {"suite", "case", "done"} =>
             (~pass_diff <=> \E p \in 1..Len(html_content) :
                                 Discrepancy(html_content[p])))

\* the verdict is fail, and the last step was a case that matches
C10_Witness ==
    /\ pc = "case"
    /\ ~pass_diff
    /\ html_content[Len(html_content)].mark = "O"

\* ---- C9
NameOf(report) == report.attrib["name"]

\* the i-th report is the last of the k parsed ones that carries its suite name
LastOfName(i) ==
    \A j \in (i + 1)..k : NameOf(xml_reports[j]) # NameOf(xml_reports[i])

\* C9: while get_reports_dict loads a directory, and after it, the dictionary
\* has one entry per suite name among the reports parsed, and under each name
\* the suite of the last parsed report that carries it; the run is aborted only
\* at a report that raises, never because two reports carry one name; and the
\* dictionary returned for the baseline directory is the one built.
C9_LastReportWins ==
    /\ Len(test_suite_dict) = Cardinality({NameOf(xml_reports[i]) : i \in 1..k})
    /\ \A i \in 1..k :
           LastOfName(i) =>
               /\ DictHas(test_suite_dict, NameOf(xml_reports[i]))
               /\ DictGet(test_suite_dict, NameOf(xml_reports[i]))
                      = extract_test_suite(xml_reports[i])
    /\ pc = "aborted" => Raises(xml_reports[k + 1])
    /\ pc = "glob5" => junit4_dict = test_suite_dict

\* the baseline directory held two different reports of one suite
C9_Witness ==
    /\ pc = "glob5"
    /\ Len(xml_reports) = 2
    /\ NameOf(xml_reports[1]) = NameOf(xml_reports[2])
    /\ extract_test_suite(xml_reports[1]) # extract_test_suite(xml_reports[2])
    /\ Len(junit4_dict) = 1

\* ---- C7
\* the outcome of each of the eight sets of markers
OutcomeOf ==
    [ch \in SUBSET Markers |->
        IF ch \in {{"error"}, {"error", "skipped"}, {"error", "failure"},
                   {"error", "skipped", "failure"}} THEN "error"
        ELSE IF ch \in {{"skipped"}, {"skipped", "failure"}} THEN "skipped"
        ELSE IF ch = {"failure"} THEN "failure"
        ELSE "success"]

\* C7: in the dictionary get_reports_dict builds, every case of every suite has
\* the outcome that the markers of the report's last testcase element of that
\* name give by the priority error, skipped, failure, success.
C7_MarkerPriority ==
    \A i \in 1..k :
        LastOfName(i) =>
            LET cases == DictGet(test_suite_dict, NameOf(xml_reports[i])).test_cases
                elems == xml_reports[i].testcases
            IN  /\ DictKeys(cases) = {elems[j].attrib["name"] : j \in 1..Len(elems)}
                /\ \A j \in 1..Len(elems) :
                       (\A j2 \in (j + 1)..Len(elems) :
                            elems[j2].attrib["name"] # elems[j].attrib["name"])
                           => DictGet(cases, elems[j].attrib["name"])
                                  = OutcomeOf[elems[j].children]

\* a report loaded whose first case carries all three markers and whose second
\* case carries skipped and failure
C7_Witness ==
    /\ pc = "glob5"
    /\ Len(xml_reports) = 1
    /\ Len(xml_reports[1].testcases) = 2
    /\ xml_reports[1].testcases[1].children = Markers
    /\ xml_reports[1].testcases[2].children = {"skipped", "failure"}
    /\ junit4_dict[1].val.test_cases =
           <<[key |-> xml_reports[1].testcases[1].attrib["name"], val |-> "error"],
             [key |-> xml_reports[1].testcases[2].attrib["name"], val |-> "skipped"]>>

\* ---- C6
LacksRootAttr(dir) == \E f \in dir : \E a \in RootAttrs : a \notin DOMAIN f.attrib

\* C6: when a report of either directory lacks one of the five root attributes,
\* the run never enters diff_dict, writes no row and no file, and where it
\* stops it has aborted.
C6_MalformedAborts ==
    (LacksRootAttr(dir4) \/ LacksRootAttr(dir5)) =>
        /\ pc \in {"glob4", "load4", "glob5", "load5", "aborted"}
        /\ html_content = <<>>
        /\ html_file = NoFile
        /\ ~(ENABLED Next) => pc = "aborted"

\* the baseline directory loaded, then a candidate report without an attribute
C6_Witness ==
    /\ pc = "aborted"
    /\ ~LacksRootAttr(dir4)
    /\ LacksRootAttr(dir5)
    /\ Len(junit4_dict) = 2
    /\ k = 1

\* ---- C2
\* the verdict of a run whose globs yield the reports in the orders o4 and o5
VerdictOf(o4, o5) == diff_dict(get_reports_dict(o4), get_reports_dict(o5)).pass_diff

\* no two reports of the directory carry the same suite name
NoCollision(dir) == \A f, g \in dir : NameOf(f) = NameOf(g) => f = g

\* C2 as claimed: the verdict of a finished run is the verdict of every run over
\* the same two directories, whatever the orders of the globs, also when two
\* reports of a directory carry the same suite name.
C2_OrderIndependent ==
    pc = "done" =>
        \A o4 \in Orders(dir4), o5 \in Orders(dir5) : VerdictOf(o4, o5) = pass_diff

\* C2 amended: the verdict of a finished run is the verdict of every run over
\* the same two directories, whatever the orders of the globs, when no two
\* reports of a directory carry the same suite name.
C2_OrderIndependentNoCollision ==
    (pc = "done" /\ NoCollision(dir4) /\ NoCollision(dir5)) =>
        \A o4 \in Orders(dir4), o5 \in Orders(dir5) : VerdictOf(o4, o5) = pass_diff

\* a finished run over two directories of two suites each, verdict fail
C2_Witness ==
    /\ pc = "done"
    /\ Cardinality(dir4) = 2
    /\ Cardinality(dir5) = 2
    /\ NoCollision(dir4)
    /\ NoCollision(dir5)
    /\ dir4 # dir5
    /\ ~pass_diff

====
